---- MODULE Spec2Model ----
(***************************************************************************)
(* Model of python-service/main.py: the /analyze request handler of the    *)
(* ROMA microservice.  One request is followed from its arrival to its     *)
(* HTTP response, together with the solve units (pool threads) it starts.  *)
(*                                                                         *)
(* Time is abstracted to one event per wait: the moment at which           *)
(* future.result(timeout=...) or as_completed(..., timeout=...) raises.    *)
(* Model names are the hard-coded defaults of build_llm_config (no         *)
(* *_MODEL environment override is set).                                   *)
(***************************************************************************)
EXTENDS Integers, Sequences, FiniteSets, TLC

\* ------------------------------------------------------------------------
\* Bounds
\* ------------------------------------------------------------------------

\* Longest `providers` list a request carries.
MaxProviders == 2

\* ------------------------------------------------------------------------
\* Python values
\* ------------------------------------------------------------------------

\* An attribute of an engine object: missing, None, or a string.
AbsentV == [tag |-> "absent", s |-> ""]
NoneV == [tag |-> "none", s |-> ""]
StrV(x) == [tag |-> "str", s |-> x]

\* Python truthiness of an attribute value that is present.
Truthy(a) == a.tag = "str" /\ a.s # ""

\* str(x) of an attribute value that is present.
PyStr(a) == IF a.tag = "none" THEN "None" ELSE a.s

LowerLetters == <<"a","b","c","d","e","f","g","h","i","j","k","l","m",
                  "n","o","p","q","r","s","t","u","v","w","x","y","z">>
UpperLetters == <<"A","B","C","D","E","F","G","H","I","J","K","L","M",
                  "N","O","P","Q","R","S","T","U","V","W","X","Y","Z">>

UpperChar(c) ==
    IF \E k \in 1..26 : LowerLetters[k] = c
    THEN UpperLetters[CHOOSE k \in 1..26 : LowerLetters[k] = c]
    ELSE c

\* str.upper() leaving every letter as it is.
UpperNone(s) == s

\* str.upper()
RECURSIVE Upper(_)
Upper(s) ==
    IF Len(s) = 0 THEN ""
    ELSE UpperChar(SubSeq(s, 1, 1)) \o Upper(SubSeq(s, 2, Len(s)))

\* needle in hay
Contains(hay, needle) ==
    \E k \in 1..(Len(hay) - Len(needle) + 1) :
        SubSeq(hay, k, k + Len(needle) - 1) = needle

\* s[:n]
Prefix(s, n) == IF Len(s) <= n THEN s ELSE SubSeq(s, 1, n)

\* sep.join(parts)
RECURSIVE Join(_, _)
Join(parts, sep) ==
    IF Len(parts) = 0 THEN ""
    ELSE IF Len(parts) = 1 THEN parts[1]
    ELSE parts[1] \o sep \o Join(Tail(parts), sep)

\* ------------------------------------------------------------------------
\* build_llm_config
\* ------------------------------------------------------------------------

Supported == {"anthropic", "openai", "grok", "openrouter", "huggingface"}

\* os.getenv("AI_PROVIDER", "grok")
AI_PROVIDER == "grok"

\* Python None for an optional request field.
NoneStr == "<None>"

\* `not x` for an optional string: None and the empty string are false.
Falsy(x) == x = NoneStr \/ x = ""

\* The em dash (U+2014) of the source's messages, written by its code
\* point: a module holds ASCII only.
EmDash == "\\u2014"

KeyName(provider) ==
    CASE provider = "anthropic" -> "ANTHROPIC_API_KEY"
      [] provider = "openai" -> "OPENAI_API_KEY"
      [] provider = "grok" -> "XAI_API_KEY"
      [] provider = "openrouter" -> "OPENROUTER_API_KEY"
      [] provider = "huggingface" -> "HUGGINGFACE_API_KEY"

\* The default model of a provider for a tier; every tier other than
\* blitz, sharp and keen takes the else branch.
ModelName(provider, roma_mode) ==
    CASE provider = "anthropic" ->
           IF roma_mode \in {"blitz", "sharp", "keen"}
           THEN "claude-haiku-4-5-20251001" ELSE "claude-sonnet-4-6"
      [] provider = "openai" ->
           IF roma_mode \in {"blitz", "sharp", "keen"}
           THEN "gpt-4o-mini" ELSE "gpt-4o"
      [] provider = "grok" ->
           CASE roma_mode = "blitz" -> "grok-3-mini-fast"
             [] roma_mode = "sharp" -> "grok-3-mini"
             [] roma_mode = "keen" -> "grok-3-fast"
             [] OTHER -> "grok-3"
      [] provider = "openrouter" -> "anthropic/claude-sonnet-4-6"
      [] provider = "huggingface" ->
           CASE roma_mode = "blitz" -> "Qwen/Qwen2.5-1.5B-Instruct"
             [] roma_mode = "sharp" -> "meta-llama/Llama-3.2-3B-Instruct"
             [] roma_mode = "keen" -> "meta-llama/Llama-3.1-8B-Instruct"
             [] OTHER -> "meta-llama/Llama-3.3-70B-Instruct"

\* LLMConfig.model: the litellm route of the model.
ModelRoute(provider) ==
    CASE provider = "anthropic" -> "anthropic/"
      [] provider = "openrouter" -> "openrouter/"
      [] OTHER -> "openai/"

BaseUrl(provider) ==
    CASE provider = "grok" -> "https://api.x.ai/v1"
      [] provider = "openrouter" -> "https://openrouter.ai/api/v1"
      [] provider = "huggingface" -> "https://router.huggingface.co/v1"
      [] OTHER -> NoneStr

\* build_llm_config(roma_mode, provider_override) under the credentials
\* `keys` (the providers whose API key is set).  ok = FALSE stands for the
\* ValueError, whose message is err.
build_llm_config(keys, roma_mode, provider_override) ==
    LET provider == IF Falsy(provider_override) THEN AI_PROVIDER
                    ELSE provider_override
    IN IF provider \notin Supported
       THEN [ok |-> FALSE,
             err |-> "Unknown AI_PROVIDER '" \o provider \o "' " \o EmDash
                     \o " use: anthropic | openai | grok | openrouter"
                     \o " | huggingface",
             model |-> "", api_key |-> "", base_url |-> "", label |-> ""]
       ELSE IF provider \notin keys
       THEN [ok |-> FALSE,
             err |-> KeyName(provider) \o " not set",
             model |-> "", api_key |-> "", base_url |-> "", label |-> ""]
       ELSE [ok |-> TRUE, err |-> "",
             model |-> ModelRoute(provider) \o ModelName(provider, roma_mode),
             api_key |-> KeyName(provider),
             base_url |-> BaseUrl(provider),
             label |-> provider \o "/" \o ModelName(provider, roma_mode)]

\* LlmConfigured with the startup succeeding on any credential at all.
LlmConfiguredAnyKey(keys, lm_ok) == keys # {} /\ lm_ok

\* The module-level try block (lines 223-236): _llm_config is set when
\* build_llm_config("keen") returns for the default provider and neither
\* dspy.LM nor dspy.configure raises (lm_ok); it is None otherwise.
LlmConfigured(keys, lm_ok) ==
    build_llm_config(keys, "keen", NoneStr).ok /\ lm_ok

\* ------------------------------------------------------------------------
\* build_roma_config_tiered (lines 193-219)
\* ------------------------------------------------------------------------

\* The AgentConfig of one role: the model, credential and endpoint of the
\* LLMConfig it is given, with the role's temperature and token limit.
\* Temperatures are written as the source writes them.
make_cfg(llm, temperature, max_tokens) ==
    [model |-> llm.model, api_key |-> llm.api_key,
     base_url |-> llm.base_url, temperature |-> temperature,
     max_tokens |-> max_tokens]

\* build_roma_config_tiered with every role on the analysis configuration,
\* as build_roma_config (lines 165-190) assigns them.
build_roma_config_untiered(analysis_llm, orchestration_llm) ==
    [runtime_timeout |-> 700,
     atomizer |-> make_cfg(analysis_llm, "0.1", 1000),
     planner |-> make_cfg(analysis_llm, "0.3", 3000),
     executor |-> make_cfg(analysis_llm, "0.5", 2000),
     aggregator |-> make_cfg(analysis_llm, "0.2", 4000)]

build_roma_config_tiered(analysis_llm, orchestration_llm) ==
    [runtime_timeout |-> 700,
     atomizer |-> make_cfg(orchestration_llm, "0.1", 1000),
     planner |-> make_cfg(orchestration_llm, "0.3", 3000),
     executor |-> make_cfg(analysis_llm, "0.5", 2000),
     aggregator |-> make_cfg(analysis_llm, "0.2", 4000)]

\* The config of a future that has not called solve() yet.
NoCfg == [runtime_timeout |-> 0]

\* ------------------------------------------------------------------------
\* extract_answer
\* ------------------------------------------------------------------------

\* A raw engine result: a plain str, or an object with some attributes.
StrResult(s) ==
    [kind |-> "str", text |-> s, result |-> AbsentV, goal |-> AbsentV,
     node_type |-> AbsentV, children |-> [tag |-> "absent", items |-> <<>>]]

NodeResult(res, goal, ntype, kids) ==
    [kind |-> "node", text |-> "", result |-> res, goal |-> goal,
     node_type |-> ntype, children |-> kids]

ChildList(items) == [tag |-> "list", items |-> items]
Child(id, goal, res) == [task_id |-> id, goal |-> goal, result |-> res]

\* str(node) of an engine object.
NodeRepr == "<TaskNode>"

\* SubtaskResult(...) for child c at 0-based position i.
Subtask(c, i) ==
    [id |-> Prefix(IF c.task_id.tag = "absent" THEN "t" \o ToString(i + 1)
                   ELSE PyStr(c.task_id), 8),
     goal |-> IF c.goal.tag = "absent" THEN "" ELSE PyStr(c.goal),
     result |-> IF Truthy(c.result) THEN c.result.s ELSE ""]

\* extract_answer with the atomic flag withheld from a node that has
\* children.
extract_answer_childless(r) ==
    IF r.kind = "str"
    THEN [ok |-> TRUE, err |-> "", answer |-> r.text, was_atomic |-> TRUE,
          subtasks |-> <<>>]
    ELSE IF r.result.tag = "absent"
    THEN [ok |-> FALSE, err |-> "object has no attribute 'result'",
          answer |-> "", was_atomic |-> FALSE, subtasks |-> <<>>]
    ELSE IF ~Truthy(r.result) /\ r.goal.tag = "absent"
    THEN [ok |-> FALSE, err |-> "object has no attribute 'goal'",
          answer |-> "", was_atomic |-> FALSE, subtasks |-> <<>>]
    ELSE
      LET node_type_str ==
              Upper(IF r.node_type.tag = "absent" THEN ""
                    ELSE PyStr(r.node_type))
          children == IF r.children.tag = "list" THEN r.children.items
                      ELSE <<>>
      IN [ok |-> TRUE, err |-> "",
          answer |-> IF Truthy(r.result) THEN r.result.s
                     ELSE IF Truthy(r.goal) THEN r.goal.s
                     ELSE NodeRepr,
          was_atomic |-> ~Contains(node_type_str, "PLAN")
                         /\ Len(children) = 0,
          subtasks |-> [k \in 1..Len(children) |->
                            Subtask(children[k], k - 1)]]

\* extract_answer(result); ok = FALSE stands for the AttributeError of
\* reading a missing attribute.
extract_answer(r) ==
    IF r.kind = "str"
    THEN [ok |-> TRUE, err |-> "", answer |-> r.text, was_atomic |-> TRUE,
          subtasks |-> <<>>]
    ELSE IF r.result.tag = "absent"
    THEN [ok |-> FALSE, err |-> "object has no attribute 'result'",
          answer |-> "", was_atomic |-> FALSE, subtasks |-> <<>>]
    ELSE IF ~Truthy(r.result) /\ r.goal.tag = "absent"
    THEN [ok |-> FALSE, err |-> "object has no attribute 'goal'",
          answer |-> "", was_atomic |-> FALSE, subtasks |-> <<>>]
    ELSE
      LET node_type_str ==
              Upper(IF r.node_type.tag = "absent" THEN ""
                    ELSE PyStr(r.node_type))
          children == IF r.children.tag = "list" THEN r.children.items
                      ELSE <<>>
      IN [ok |-> TRUE, err |-> "",
          answer |-> IF Truthy(r.result) THEN r.result.s
                     ELSE IF Truthy(r.goal) THEN r.goal.s
                     ELSE NodeRepr,
          was_atomic |-> ~Contains(node_type_str, "PLAN"),
          subtasks |-> [k \in 1..Len(children) |->
                            Subtask(children[k], k - 1)]]

\* ------------------------------------------------------------------------
\* Exceptions and responses
\* ------------------------------------------------------------------------

Exc(type, msg) == [type |-> type, msg |-> msg]
NoExc == Exc("", "")

\* HTTPException(status_code, detail); its str() is "<status>: <detail>".
HTTPException(status, detail) ==
    [type |-> "HTTPException", msg |-> ToString(status) \o ": " \o detail,
     status |-> status, detail |-> detail]

NoResponse ==
    [status |-> 0, detail |-> "", answer |-> "", was_atomic |-> FALSE,
     subtasks |-> <<>>, provider |-> ""]

\* The response FastAPI sends for a raised HTTPException.
ErrorResponse(status, detail) ==
    [status |-> status, detail |-> detail, answer |-> "",
     was_atomic |-> FALSE, subtasks |-> <<>>, provider |-> ""]

\* AnalyzeResponse(...), sent with status 200 (duration_ms is left out).
AnalyzeResponse(answer, was_atomic, subtasks, prov_label) ==
    [status |-> 200, detail |-> "", answer |-> answer,
     was_atomic |-> was_atomic, subtasks |-> subtasks,
     provider |-> prov_label]

\* solve_timeout with the slowest tier's timeout for a tier that is not in
\* the table.
solve_timeout_slowest(roma_mode) ==
    CASE roma_mode = "blitz" -> 35
      [] roma_mode = "sharp" -> 55
      [] roma_mode = "keen" -> 85
      [] OTHER -> 120

\* _solve_timeouts.get(roma_mode, 85)
solve_timeout(roma_mode) ==
    CASE roma_mode = "blitz" -> 35
      [] roma_mode = "sharp" -> 55
      [] roma_mode = "keen" -> 85
      [] roma_mode = "smart" -> 120
      [] OTHER -> 85

\* The handler of `except (TimeoutError, Exception) as _te` around
\* future.result(timeout=solve_timeout): the exception it raises.  The
\* timeout of future.result is the built-in TimeoutError (Python 3.11 on),
\* and so is a TimeoutError raised by the unit itself.
InnerExcept(te, roma_mode) ==
    IF te.type = "TimeoutError"
    THEN LET h == HTTPException(504,
                    "ROMA solve timed out after "
                    \o ToString(solve_timeout(roma_mode))
                    \o "s (mode=" \o roma_mode
                    \o "). Try blitz mode or retry.")
         IN Exc(h.type, h.msg)
    ELSE te

\* The handler of the outer `except Exception as e`, which encloses both
\* solve paths: every exception leaving them becomes a 500 response.
OuterExcept(e) == ErrorResponse(500, "ROMA solve failed: " \o e.msg)

\* The response to an exception raised outside the try block.
Unhandled(e) == ErrorResponse(500, "Internal Server Error")

\* ------------------------------------------------------------------------
\* The multi-provider merge
\* ------------------------------------------------------------------------

\* DictSet as results_map.setdefault(prov, ...): a key already present
\* keeps its value.
DictSetDefault(map, prov, prov_label, res) ==
    LET entry == [prov |-> prov, label |-> prov_label, res |-> res]
    IN IF \E j \in 1..Len(map) : map[j].prov = prov
       THEN map
       ELSE Append(map, entry)

\* results_map[prov] = (prov_label, res) on an insertion-ordered dict: a
\* key already present keeps its position and takes the new value.
DictSet(map, prov, prov_label, res) ==
    LET entry == [prov |-> prov, label |-> prov_label, res |-> res]
    IN IF \E j \in 1..Len(map) : map[j].prov = prov
       THEN [j \in 1..Len(map) |->
                IF map[j].prov = prov THEN entry ELSE map[j]]
       ELSE Append(map, entry)

RECURSIVE ConcatAll(_)
ConcatAll(seqs) ==
    IF Len(seqs) = 0 THEN <<>> ELSE Head(seqs) \o ConcatAll(Tail(seqs))

\* MergeResponse without the check for an empty results_map.
MergeResponseUnchecked(map) ==
    LET ext == [j \in 1..Len(map) |-> extract_answer(map[j].res)]
    IN IF \E j \in 1..Len(map) : ~ext[j].ok
       THEN OuterExcept(Exc("AttributeError", "object has no attribute"))
       ELSE AnalyzeResponse(
                Join([j \in 1..Len(map) |->
                         "[" \o map[j].label \o "]\n" \o ext[j].answer],
                     "\n\n---\n\n"),
                Len(ConcatAll([j \in 1..Len(map) |-> ext[j].subtasks])) = 0,
                ConcatAll([j \in 1..Len(map) |-> ext[j].subtasks]),
                Join([j \in 1..Len(map) |-> map[j].label], " + "))

\* Lines 386-410: the response built from results_map, or the response of
\* the exception raised on the way.
MergeResponse(map) ==
    IF Len(map) = 0
    THEN OuterExcept(Exc("RuntimeError",
                         "All providers failed in parallel solve"))
    ELSE
      LET ext == [j \in 1..Len(map) |-> extract_answer(map[j].res)]
      IN IF \E j \in 1..Len(map) : ~ext[j].ok
         THEN LET bad == CHOOSE j \in 1..Len(map) :
                            /\ ~ext[j].ok
                            /\ \A k \in 1..(j - 1) : ext[k].ok
              IN OuterExcept(Exc("AttributeError", ext[bad].err))
         ELSE
           LET parts == [j \in 1..Len(map) |->
                            "[" \o map[j].label \o "]\n" \o ext[j].answer]
               all_subtasks ==
                   ConcatAll([j \in 1..Len(map) |-> ext[j].subtasks])
           IN AnalyzeResponse(
                  Join(parts, "\n\n---\n\n"),
                  Len(all_subtasks) = 0,
                  all_subtasks,
                  Join([j \in 1..Len(map) |-> map[j].label], " + "))

\* Lines 366-369: the response of the single-provider path to a result.
SingleResponse(prov_label, result) ==
    LET ext == extract_answer(result)
    IN IF ext.ok
       THEN AnalyzeResponse(ext.answer, ext.was_atomic, ext.subtasks,
                            prov_label)
       ELSE OuterExcept(Exc("AttributeError", ext.err))

\* ------------------------------------------------------------------------
\* State
\* ------------------------------------------------------------------------

VARIABLES
    keys,         \* the providers whose API key is set in the environment
    configured,   \* _llm_config is not None
    req,          \* the AnalyzeRequest
    pc,           \* where the handler is
    units,        \* one run_single_solve call per submitted future
    pending,      \* as_completed: futures not yet yielded from `pending`
    batch,        \* as_completed: finished futures being yielded
    waiterq,      \* as_completed: waiter.finished_futures
    results_map,  \* the insertion-ordered dict of the multi-provider path
    exc,          \* the exception propagating through the `with` exit
    response,     \* the HTTP response, NoResponse until it is sent
    atDeadline,   \* the units' states when the timeout was raised, else <<>>
    wait_timeout, \* the timeout given to future.result / as_completed, 0
                  \* before the wait begins
    returned      \* history: the futures whose solve() call returned, in
                  \* the order they returned, with a 0 where as_completed
                  \* was entered

vars == <<keys, configured, req, pc, units, pending, batch, waiterq, results_map, exc,
          response, atDeadline, wait_timeout, returned>>

\* Provider names a request may carry; "bogus" is not a supported provider.
ProviderNames == {"grok", "openai", "bogus"}

\* The credentials the service may be started with.
KeySets == SUBSET {"grok", "openai"}

\* The tier requests carry here; SpecTier below takes requests of every
\* tier.
ReqModes == {"blitz"}

RECURSIVE SeqsUpTo(_, _)
SeqsUpTo(S, n) ==
    IF n = 0 THEN {<<>>}
    ELSE LET shorter == SeqsUpTo(S, n - 1)
         IN shorter \cup
            {Append(q, x) : q \in {r \in shorter : Len(r) = n - 1}, x \in S}

\* What solve() may return for the prompt under a provider's models: a
\* plain string, a planning node with one child, and an object that has no
\* `result` attribute.
PlainResult(prov) == StrResult("answer of " \o prov)
PlanResult(prov) ==
    NodeResult(StrV("result of " \o prov), StrV("G1"), StrV("NodeType.PLAN"),
               ChildList(<<Child(StrV("task-0001-" \o prov),
                                 StrV("subgoal of " \o prov),
                                 StrV("r1"))>>))
BareResult == NodeResult(AbsentV, StrV("G1"), AbsentV, ChildList(<<>>))
RawResults(prov) == {PlainResult(prov), PlanResult(prov), BareResult}

\* What solve() may raise: an engine error, or the built-in TimeoutError
\* of a network call inside the engine.
SolveErrors == {Exc("Exception", "engine error"),
                Exc("TimeoutError", "timed out")}

Init ==
    /\ keys \in KeySets
    /\ \E lm_ok \in BOOLEAN : configured = LlmConfigured(keys, lm_ok)
    /\ req \in [roma_mode : ReqModes,
                orch_mode : {NoneStr},
                provider : ProviderNames \cup {NoneStr},
                providers : SeqsUpTo(ProviderNames, MaxProviders)]
    /\ pc = "start"
    /\ units = <<>>
    /\ pending = {}
    /\ batch = <<>>
    /\ waiterq = <<>>
    /\ results_map = <<>>
    /\ exc = NoExc
    /\ response = NoResponse
    /\ atDeadline = <<>>
    /\ wait_timeout = 0
    /\ returned = <<>>

\* ------------------------------------------------------------------------
\* The handler up to the dispatch (lines 292-355, 376-377)
\* ------------------------------------------------------------------------

\* req.roma_mode or "keen"
roma_mode == IF Falsy(req.roma_mode) THEN "keen" ELSE req.roma_mode

\* orch_mode with the orchestration roles left on the analysis tier when
\* the request gives none.
orch_mode_same ==
    IF ~Falsy(req.orch_mode) THEN req.orch_mode ELSE roma_mode

\* req.orch_mode or _orch_tier_map.get(roma_mode, "sharp")
orch_mode ==
    IF ~Falsy(req.orch_mode) THEN req.orch_mode
    ELSE CASE roma_mode = "blitz" -> "blitz"
           [] roma_mode = "sharp" -> "blitz"
           [] roma_mode = "keen" -> "sharp"
           [] roma_mode = "smart" -> "keen"
           [] OTHER -> "sharp"

active_providers ==
    IF Len(req.providers) > 0 THEN req.providers
    ELSE <<IF Falsy(req.provider) THEN AI_PROVIDER ELSE req.provider>>

\* A future whose run_single_solve call has been started by the pool.
Submitted(prov) ==
    [prov |-> prov, st |-> "running", label |-> "", raw |-> StrResult(""),
     exc |-> NoExc, cfg |-> NoCfg]

Respond(r) ==
    /\ pc' = "responded"
    /\ response' = r

\* Line 292: the service was started without a usable default provider.
RejectUnconfigured ==
    /\ pc = "start"
    /\ ~configured
    /\ Respond(ErrorResponse(503, "LLM not configured " \o EmDash
                                   \o " check env vars"))
    /\ UNCHANGED <<keys, configured, req, units, pending, batch, waiterq, results_map,
                   exc, atDeadline,
                   wait_timeout, returned>>

\* Lines 298 and 304: build_llm_config raises for req.provider, outside the
\* try block.
RejectProvider ==
    /\ pc = "start"
    /\ configured
    /\ \/ ~build_llm_config(keys, roma_mode, req.provider).ok
       \/ ~build_llm_config(keys, orch_mode, req.provider).ok
    /\ Respond(Unhandled(Exc("ValueError",
                  build_llm_config(keys, roma_mode, req.provider).err)))
    /\ UNCHANGED <<keys, configured, req, units, pending, batch, waiterq, results_map,
                   exc, atDeadline,
                   wait_timeout, returned>>

Dispatchable ==
    /\ pc = "start"
    /\ configured
    /\ build_llm_config(keys, roma_mode, req.provider).ok
    /\ build_llm_config(keys, orch_mode, req.provider).ok

\* Lines 354-355: the single-provider path submits its one future.
DispatchSingle ==
    /\ Dispatchable
    /\ Len(active_providers) = 1
    /\ units' = <<Submitted(active_providers[1])>>
    /\ pc' = "waiting"
    /\ wait_timeout' = solve_timeout(roma_mode)
    /\ UNCHANGED <<keys, configured, req, pending, batch, waiterq, results_map, exc,
                   response, atDeadline, returned>>

\* Lines 376-377: the multi-provider path submits one future per entry of
\* the list; the pool has one worker per future, so all of them start.
DispatchMulti ==
    /\ Dispatchable
    /\ Len(active_providers) # 1
    /\ units' = [i \in 1..Len(active_providers) |->
                    Submitted(active_providers[i])]
    /\ pc' = "submitted"
    /\ UNCHANGED <<keys, configured, req, pending, batch, waiterq, results_map, exc,
                   response, atDeadline,
                   wait_timeout, returned>>

\* ------------------------------------------------------------------------
\* run_single_solve on a pool thread (lines 318-323)
\* ------------------------------------------------------------------------

\* Future.set_result / set_exception notify the waiter as_completed has
\* installed, for as long as the future has not been yielded.
Notify(i) ==
    waiterq' = IF pc = "collecting" /\ i \in pending
               THEN Append(waiterq, i) ELSE waiterq

UnitConfigured(i) ==
    /\ build_llm_config(keys, roma_mode, units[i].prov).ok
    /\ build_llm_config(keys, orch_mode, units[i].prov).ok

\* Lines 320-322: the ROMAConfig run_single_solve passes to solve().
UnitCfg(i) ==
    build_roma_config_tiered(
        build_llm_config(keys, roma_mode, units[i].prov),
        build_llm_config(keys, orch_mode, units[i].prov))

\* build_llm_config raises inside the unit: solve() is never called.
UnitConfigFails(i) ==
    /\ units[i].st = "running"
    /\ ~UnitConfigured(i)
    /\ units' = [units EXCEPT ![i].st = "failed",
                     ![i].exc = Exc("ValueError",
                         build_llm_config(keys, roma_mode,
                                          units[i].prov).err)]
    /\ Notify(i)
    /\ UNCHANGED <<keys, configured, req, pc, pending, batch, results_map, exc,
                   response, atDeadline, wait_timeout, returned>>

\* Lines 320-323: the unit has built its configuration and calls solve(),
\* which returns or raises in a later step.
UnitCallsSolve(i) ==
    /\ units[i].st = "running"
    /\ units[i].cfg = NoCfg
    /\ UnitConfigured(i)
    /\ units' = [units EXCEPT ![i].cfg = UnitCfg(i)]
    /\ UNCHANGED <<keys, configured, req, pc, pending, batch, waiterq,
                   results_map, exc, response, atDeadline, wait_timeout,
                   returned>>

\* UnitSolveReturns with a result that still reaches the caller after the
\* request has responded.
UnitSolveReturnsLate(i, raw) ==
    /\ units[i].st = "running"
    /\ units[i].cfg # NoCfg
    /\ units' = [units EXCEPT ![i].st = "done",
                     ![i].label = build_llm_config(keys, roma_mode,
                                                   units[i].prov).label,
                     ![i].raw = raw]
    /\ Notify(i)
    /\ response' =
           IF pc = "responded"
           THEN SingleResponse(build_llm_config(keys, roma_mode,
                                                units[i].prov).label, raw)
           ELSE response
    /\ returned' = Append(returned, i)
    /\ UNCHANGED <<keys, configured, req, pc, pending, batch, results_map, exc,
                   atDeadline, wait_timeout>>

\* solve() returns: the future's result is (p_label, result).
UnitSolveReturns(i, raw) ==
    /\ units[i].st = "running"
    /\ units[i].cfg # NoCfg
    /\ units' = [units EXCEPT ![i].st = "done",
                     ![i].label = build_llm_config(keys, roma_mode,
                                                   units[i].prov).label,
                     ![i].raw = raw]
    /\ Notify(i)
    /\ returned' = Append(returned, i)
    /\ UNCHANGED <<keys, configured, req, pc, pending, batch, results_map, exc,
                   response, atDeadline, wait_timeout>>

\* solve() raises.
UnitSolveRaises(i, e) ==
    /\ units[i].st = "running"
    /\ units[i].cfg # NoCfg
    /\ units' = [units EXCEPT ![i].st = "failed", ![i].exc = e]
    /\ Notify(i)
    /\ UNCHANGED <<keys, configured, req, pc, pending, batch, results_map, exc,
                   response, atDeadline, wait_timeout, returned>>

\* ------------------------------------------------------------------------
\* The single-provider path (lines 356-369)
\* ------------------------------------------------------------------------

Snapshot == [i \in 1..Len(units) |-> units[i].st]

\* future.result returns within the timeout.
SingleReturn ==
    /\ pc = "waiting"
    /\ units[1].st = "done"
    /\ Respond(SingleResponse(units[1].label, units[1].raw))
    /\ UNCHANGED <<keys, configured, req, units, pending, batch, waiterq, results_map,
                   exc, atDeadline,
                   wait_timeout, returned>>

\* future.result re-raises the unit's exception.
SingleRaise ==
    /\ pc = "waiting"
    /\ units[1].st = "failed"
    /\ Respond(OuterExcept(InnerExcept(units[1].exc, roma_mode)))
    /\ UNCHANGED <<keys, configured, req, units, pending, batch, waiterq, results_map,
                   exc, atDeadline,
                   wait_timeout, returned>>

\* SingleTimeout with the executor used as a context manager: its exit
\* joins the thread before the exception goes on.
SingleTimeoutJoin ==
    /\ pc = "waiting"
    /\ units[1].st = "running"
    /\ atDeadline' = Snapshot
    /\ exc' = InnerExcept(Exc("TimeoutError", ""), roma_mode)
    /\ pc' = "shutdown_wait"
    /\ UNCHANGED <<keys, configured, req, units, pending, batch, waiterq, results_map,
                   response,
                   wait_timeout, returned>>

\* future.result raises TimeoutError: shutdown(wait=False) returns at once
\* and the thread is left to itself.
SingleTimeout ==
    /\ pc = "waiting"
    /\ units[1].st = "running"
    /\ atDeadline' = Snapshot
    /\ Respond(OuterExcept(InnerExcept(
                   Exc("TimeoutError", ""), roma_mode)))
    /\ UNCHANGED <<keys, configured, req, units, pending, batch, waiterq, results_map,
                   exc,
                   wait_timeout, returned>>

\* ------------------------------------------------------------------------
\* The multi-provider path (lines 374-402)
\* ------------------------------------------------------------------------

Finished(i) == units[i].st \in {"done", "failed"}

\* The arrangements of a finite set as a sequence.
Perms(S) ==
    {q \in [1..Cardinality(S) -> S] :
        \A a, b \in 1..Cardinality(S) : a # b => q[a] # q[b]}

\* as_completed is entered: the futures already finished are yielded first,
\* in the iteration order of a set; the others are waited for.
StartCollect ==
    /\ pc = "submitted"
    /\ \E q \in Perms({i \in 1..Len(units) : Finished(i)}) : batch' = q
    /\ pending' = {i \in 1..Len(units) : ~Finished(i)}
    /\ waiterq' = <<>>
    /\ pc' = "collecting"
    /\ wait_timeout' = solve_timeout(roma_mode)
    /\ returned' = Append(returned, 0)
    /\ UNCHANGED <<keys, configured, req, units, results_map, exc, response, atDeadline>>

\* One turn of the for loop (lines 379-384) on the next yielded future.
YieldNext ==
    /\ pc = "collecting"
    /\ Len(batch) > 0
    /\ LET i == Head(batch)
       IN /\ results_map' =
                 IF units[i].st = "done"
                 THEN DictSet(results_map, units[i].prov, units[i].label,
                              units[i].raw)
                 ELSE results_map
          /\ pending' = pending \ {i}
    /\ batch' = Tail(batch)
    /\ UNCHANGED <<keys, configured, req, pc, units, waiterq, exc, response, atDeadline,
                   wait_timeout, returned>>

\* as_completed wakes up and takes the futures finished meanwhile, in
\* their order of completion.
Grab ==
    /\ pc = "collecting"
    /\ Len(batch) = 0
    /\ Len(waiterq) > 0
    /\ batch' = waiterq
    /\ waiterq' = <<>>
    /\ UNCHANGED <<keys, configured, req, pc, units, pending, results_map, exc,
                   response, atDeadline,
                   wait_timeout, returned>>

\* MultiTimeout with the unfinished futures cancelled on the way out.
MultiTimeoutCancel ==
    /\ pc = "collecting"
    /\ Len(batch) = 0
    /\ pending # {}
    /\ atDeadline' = Snapshot
    /\ exc' = Exc("TimeoutError",
                  ToString(Cardinality(pending)) \o " (of "
                  \o ToString(Len(units)) \o ") futures unfinished")
    /\ units' = [i \in 1..Len(units) |->
                    IF units[i].st = "running"
                    THEN [units[i] EXCEPT !.st = "cancelled"]
                    ELSE units[i]]
    /\ pc' = "shutdown_wait"
    /\ UNCHANGED <<keys, configured, req, pending, batch, waiterq, results_map,
                   response,
                   wait_timeout, returned>>

\* as_completed finds the timeout elapsed with futures it has not yielded
\* and raises TimeoutError out of the for loop; the `with` block's exit then
\* calls shutdown(wait=True).
MultiTimeout ==
    /\ pc = "collecting"
    /\ Len(batch) = 0
    /\ pending # {}
    /\ atDeadline' = Snapshot
    /\ exc' = Exc("TimeoutError",
                  ToString(Cardinality(pending)) \o " (of "
                  \o ToString(Len(units)) \o ") futures unfinished")
    /\ pc' = "shutdown_wait"
    /\ UNCHANGED <<keys, configured, req, units, pending, batch, waiterq, results_map,
                   response,
                   wait_timeout, returned>>

\* shutdown(wait=True) has joined every pool thread: the TimeoutError goes
\* on to the outer except.
ShutdownDone ==
    /\ pc = "shutdown_wait"
    /\ \A i \in 1..Len(units) : Finished(i)
    /\ Respond(OuterExcept(exc))
    /\ UNCHANGED <<keys, configured, req, units, pending, batch, waiterq, results_map,
                   exc, atDeadline,
                   wait_timeout, returned>>

\* Every future has been yielded: the loop ends, the `with` block exits
\* and lines 386-410 build the response.
MultiFinish ==
    /\ pc = "collecting"
    /\ Len(batch) = 0
    /\ pending = {}
    /\ Respond(MergeResponse(results_map))
    /\ UNCHANGED <<keys, configured, req, units, pending, batch, waiterq, results_map,
                   exc, atDeadline,
                   wait_timeout, returned>>

\* ------------------------------------------------------------------------
\* Specification
\* ------------------------------------------------------------------------

HandlerNext ==
    \/ RejectUnconfigured
    \/ RejectProvider
    \/ DispatchSingle
    \/ DispatchMulti
    \/ SingleReturn
    \/ SingleRaise
    \/ SingleTimeout
    \/ StartCollect
    \/ YieldNext
    \/ Grab
    \/ MultiTimeout
    \/ ShutdownDone
    \/ MultiFinish

UnitNext ==
    \/ \E i \in 1..Len(units) : UnitConfigFails(i)
    \/ \E i \in 1..Len(units) : UnitCallsSolve(i)
    \/ \E i \in 1..Len(units) :
           \E raw \in RawResults(units[i].prov) : UnitSolveReturns(i, raw)
    \/ \E i \in 1..Len(units) :
           \E e \in SolveErrors : UnitSolveRaises(i, e)

Next == HandlerNext \/ UnitNext

Spec == Init /\ [][Next]_vars

TypeOK ==
    /\ pc \in {"start", "waiting", "submitted", "collecting",
               "shutdown_wait", "responded"}
    /\ \A i \in 1..Len(units) : units[i].st \in {"running", "done", "failed"}
    /\ pending \subseteq 1..Len(units)
    /\ (response = NoResponse) = (pc # "responded")
    /\ configured \in BOOLEAN
    /\ wait_timeout \in {0, 35, 55, 85, 120}
    /\ \A k \in 1..Len(returned) : returned[k] \in 0..Len(units)

\* ------------------------------------------------------------------------
\* Vocabulary of the properties
\* ------------------------------------------------------------------------

Single == Len(units) = 1
Multi == Len(units) > 1
Responded == pc = "responded"
DeadlineHit == atDeadline # <<>>

\* The (provider, label, result) a unit contributes when it succeeds.
EntryOf(i) ==
    [prov |-> units[i].prov, label |-> units[i].label, res |-> units[i].raw]

\* The merge of the units q[1], q[2], ... in that order.
MergeOf(q) == MergeResponse([k \in 1..Len(q) |-> EntryOf(q[k])])

\* Where a provider is first declared in the request.
FirstPos(prov) ==
    CHOOSE k \in 1..Len(active_providers) :
        /\ active_providers[k] = prov
        /\ \A j \in 1..(k - 1) : active_providers[j] # prov

\* The entries of a map arranged in the order their providers are declared.
DeclaredOrder(map) ==
    LET q == CHOOSE r \in Perms(1..Len(map)) :
                 \A a, b \in 1..Len(map) :
                     a < b => FirstPos(map[r[a]].prov) < FirstPos(map[r[b]].prov)
    IN [k \in 1..Len(map) |-> map[q[k]]]

\* A provider the request cannot be served with: unsupported, or no key.
Invalid(prov) == ~build_llm_config(keys, roma_mode, prov).ok

\* The request's state in the terms PENDING, RUNNING, COMPLETED, TIMED_OUT,
\* FAILED: 200 is COMPLETED, 504 is TIMED_OUT, any other status is FAILED.
ReqState ==
    IF pc = "start" THEN "PENDING"
    ELSE IF pc # "responded" THEN "RUNNING"
    ELSE IF response.status = 200 THEN "COMPLETED"
    ELSE IF response.status = 504 THEN "TIMED_OUT"
    ELSE "FAILED"

Terminal == ReqState \in {"COMPLETED", "TIMED_OUT", "FAILED"}

\* ------------------------------------------------------------------------
\* Properties
\* ------------------------------------------------------------------------

\* C1: in multi-provider mode the merged answer, the combined subtasks and
\* the combined label list the providers that succeeded in the order the
\* request declares them, whatever the order in which the units complete.
C1_MergeInDeclaredOrder ==
    (Responded /\ Multi /\ ~DeadlineHit)
        => response = MergeResponse(DeclaredOrder(results_map))

\* C2: in multi-provider mode, when the deadline elapses with one unit
\* already successful and another still unresolved (inside solve()), the
\* request succeeds with the aggregate of exactly the units successful at
\* the deadline.
C2_PartialSuccessAtDeadline ==
    (/\ Responded /\ Multi /\ DeadlineHit
     /\ \E i \in 1..Len(units) : atDeadline[i] = "done"
     /\ \E j \in 1..Len(units) :
            atDeadline[j] = "running" /\ UnitConfigured(j))
        => /\ response.status = 200
           /\ \E q \in Perms({i \in 1..Len(units) : atDeadline[i] = "done"}) :
                  response = MergeOf(q)

\* C3: in multi-provider mode, once the deadline has elapsed the request
\* goes on to its response without waiting for the units still inside
\* solve(): as long as it has not responded it has a step of its own to
\* take, so a unit that never returns cannot hold it up.
C3_DeadlineLeadsToResponse ==
    (/\ Multi /\ DeadlineHit /\ ~Responded
     /\ \A i \in 1..Len(units) : units[i].st = "running" => UnitConfigured(i))
        => ENABLED HandlerNext

\* C4: in single-provider mode, a deadline that elapses before the unit
\* resolves is answered with status 504, not with 500.
C4_SingleTimeoutIs504 ==
    (Responded /\ Single /\ DeadlineHit) => response.status = 504

\* C5: in single-provider mode, the step in which the deadline elapses
\* sends the response and leaves the running unit as it is; afterwards the
\* unit only moves by completing or failing.
C5_SingleTimeoutLeavesUnitRunning ==
    [][/\ (Single /\ ~DeadlineHit /\ atDeadline' # <<>>)
            => /\ response' # NoResponse
               /\ pc' = "responded"
               /\ units' = units
               /\ units'[1].st = "running"
       /\ (Single /\ DeadlineHit)
            => /\ Len(units') = 1
               /\ units[1].st = "running"
                    => units'[1].st \in {"running", "done", "failed"}
               /\ units[1].st # "running" => units' = units]_vars

C5_Witness ==
    /\ Single /\ DeadlineHit /\ Responded
    /\ units[1].st = "running"

\* C6: in multi-provider mode with distinct providers, when every unit
\* resolves before the deadline and at least one succeeds, the request
\* succeeds and the aggregate holds exactly the providers that succeeded.
C6_SurvivorsOnly ==
    (/\ Responded /\ Multi /\ ~DeadlineHit
     /\ \A a, b \in 1..Len(units) : a # b => units[a].prov # units[b].prov
     /\ \E i \in 1..Len(units) : units[i].st = "done")
        => /\ response.status = 200
           /\ \E q \in Perms({i \in 1..Len(units) : units[i].st = "done"}) :
                  response = MergeOf(q)

\* No unit had succeeded when the request stopped waiting: at the deadline
\* if it elapsed, else when all units had resolved.
NoUnitSucceeded ==
    IF DeadlineHit
    THEN \A i \in 1..Len(units) : atDeadline[i] # "done"
    ELSE \A i \in 1..Len(units) : units[i].st = "failed"

\* C7: in multi-provider mode, when every unit has failed or is unresolved
\* at the deadline, the response is a 500 failure that carries no answer,
\* no subtasks and no provider label.
C7_NoSuccessFails ==
    (Responded /\ Multi /\ NoUnitSucceeded)
        => /\ response.status = 500
           /\ response.answer = ""
           /\ response.subtasks = <<>>
           /\ response.provider = ""

C7_Witness ==
    /\ Responded /\ Multi /\ DeadlineHit /\ NoUnitSucceeded
    /\ \E i \in 1..Len(units) : atDeadline[i] = "failed"
    /\ \E j \in 1..Len(units) : atDeadline[j] = "running"

\* C8: when a provider the request uses is unsupported or has no key, the
\* request fails with no unit reaching the engine: no solve() call returns
\* or raises for it, also for the valid providers of the list.
C8_InvalidProviderNothingRuns ==
    (\E k \in 1..Len(active_providers) : Invalid(active_providers[k]))
        => /\ \A i \in 1..Len(units) :
                  /\ units[i].st # "done"
                  /\ units[i].st = "failed" => units[i].exc.type = "ValueError"
           /\ Responded => response.status # 200

\* C9: a running unit leaves the running state only by its own completion
\* or failure: not in a step of the handler (the deadline among them), and
\* not in the step in which a sibling resolves; and no unit is dropped.
C9_NoUnitCancelled ==
    [][/\ units # <<>> => Len(units') = Len(units)
       /\ \A i \in 1..Len(units) :
            units[i].st = "running" =>
                /\ units'[i].st \in {"running", "done", "failed"}
                /\ units'[i] # units[i] =>
                       /\ pc' = pc
                       /\ atDeadline' = atDeadline
                       /\ \A j \in 1..Len(units) :
                              j # i => units'[j] = units[j]]_vars

C9_Witness ==
    /\ Multi /\ DeadlineHit
    /\ \E i \in 1..Len(units) : units[i].st = "failed"
    /\ \E j \in 1..Len(units) : units[j].st = "running"

\* C10: a dispatched request goes from PENDING to RUNNING and from RUNNING
\* to one of COMPLETED, TIMED_OUT, FAILED; once terminal, its state and its
\* response never change, whatever its units do later.
C10_RequestLifecycle ==
    [][/\ (ReqState = "PENDING" /\ units' # <<>>) => ReqState' = "RUNNING"
       /\ (ReqState = "PENDING" /\ units' = <<>>)
            => ReqState' \in {"PENDING", "FAILED"}
       /\ ReqState = "RUNNING"
            => ReqState' \in {"RUNNING", "COMPLETED", "TIMED_OUT", "FAILED"}
       /\ Terminal => (ReqState' = ReqState /\ response' = response)]_vars

C10_Witness ==
    /\ Responded /\ Single /\ DeadlineHit
    /\ units[1].st = "done"


\* The response of a single-provider request whose deadline elapsed
\* (lines 359-365, then 412-414).
TimedOutResponse ==
    OuterExcept(InnerExcept(Exc("TimeoutError", ""), roma_mode))

\* C11: in single-provider mode a failure the unit raises before the
\* deadline elapses fails the request as a solve failure, a 500, and never
\* as a timeout: the response is not the one an elapsed deadline gives,
\* whatever the kind of exception the unit raised.
C11_UnitFailureIsNotTimeout ==
    (Responded /\ Single /\ ~DeadlineHit /\ units[1].st = "failed")
        => (response.status = 500 /\ response # TimedOutResponse)

\* C12: when the service was started without the credential of its default
\* provider, or its startup configuration failed otherwise, every request
\* is answered 503 "LLM not configured ..." and no unit is launched,
\* whatever its tier, provider and providers list.
C12_UnconfiguredGives503 ==
    ((AI_PROVIDER \notin keys \/ ~configured) /\ pc # "start")
        => /\ Responded
           /\ response = ErrorResponse(503, "LLM not configured " \o EmDash
                                             \o " check env vars")
           /\ units = <<>>

C12_Witness ==
    /\ AI_PROVIDER \notin keys
    /\ "openai" \in keys
    /\ Responded
    /\ req.provider = "openai"
    /\ Len(req.providers) > 1
    /\ \A k \in 1..Len(req.providers) : req.providers[k] = "openai"

\* ------------------------------------------------------------------------
\* The tiers: requests of every analysis and orchestration tier
\* ------------------------------------------------------------------------

\* The four tiers, from the fastest to the most thorough.
TierOrder == <<"blitz", "sharp", "keen", "smart">>

AllTiers == {TierOrder[k] : k \in 1..Len(TierOrder)}

\* What a request may carry as roma_mode: a tier, nothing, the empty
\* string, or a value that is not a tier.
TierModes == AllTiers \cup {NoneStr, "", "turbo"}

\* What a request may carry as orch_mode: a tier, nothing or the empty
\* string.
OrchModes == AllTiers \cup {NoneStr, ""}

\* Requests of every tier, for one provider or for two, to a service
\* started with or without its credentials.
InitTier ==
    /\ keys \in {{}, {"grok", "openai"}}
    /\ \E lm_ok \in BOOLEAN : configured = LlmConfigured(keys, lm_ok)
    /\ req \in [roma_mode : TierModes,
                orch_mode : OrchModes,
                provider : {NoneStr, "", "bogus"},
                providers : {<<>>, <<"grok", "openai">>,
                             <<"openai", "bogus">>}]
    /\ pc = "start"
    /\ units = <<>>
    /\ pending = {}
    /\ batch = <<>>
    /\ waiterq = <<>>
    /\ results_map = <<>>
    /\ exc = NoExc
    /\ response = NoResponse
    /\ atDeadline = <<>>
    /\ wait_timeout = 0
    /\ returned = <<>>

SpecTier == InitTier /\ [][Next]_vars

\* solve() has been called in unit i.
Solving(i) == units[i].cfg # NoCfg

\* C13: in every unit that calls solve(), of a single-provider or of a
\* multi-provider request, the atomizer and the planner carry the model,
\* credential and endpoint of the orchestration configuration, the
\* executor and the aggregator those of the analysis configuration, with
\* the policy atomizer (0.1, 1000), planner (0.3, 3000), executor
\* (0.5, 2000), aggregator (0.2, 4000).
C13_RoleAssignment ==
    \A i \in 1..Len(units) :
        Solving(i) =>
            LET a == build_llm_config(keys, roma_mode, units[i].prov)
                o == build_llm_config(keys, orch_mode, units[i].prov)
                Role(llm, temperature, max_tokens) ==
                    [model |-> llm.model, api_key |-> llm.api_key,
                     base_url |-> llm.base_url,
                     temperature |-> temperature,
                     max_tokens |-> max_tokens]
            IN /\ units[i].cfg.atomizer = Role(o, "0.1", 1000)
               /\ units[i].cfg.planner = Role(o, "0.3", 3000)
               /\ units[i].cfg.executor = Role(a, "0.5", 2000)
               /\ units[i].cfg.aggregator = Role(a, "0.2", 4000)

C13_Witness ==
    /\ Multi
    /\ \A i \in 1..Len(units) : Solving(i)
    /\ req.orch_mode = "blitz"
    /\ req.roma_mode = "smart"
    /\ \A i \in 1..Len(units) :
           units[i].cfg.planner.model # units[i].cfg.aggregator.model

\* The place of a tier in the order of the tiers.
TierRank(t) == CHOOSE k \in 1..Len(TierOrder) : TierOrder[k] = t

\* C14: a unit's orchestration roles run on the tier the request gives as
\* orch_mode, unchanged; when it gives none the tier is derived from the
\* analysis tier, blitz -> blitz, sharp -> blitz, keen -> sharp,
\* smart -> keen, and is never above the analysis tier. Read off the grok
\* units, whose model names differ from tier to tier.
C14_OrchestrationTier ==
    \A i \in 1..Len(units) :
        (Solving(i) /\ units[i].prov = "grok" /\ roma_mode \in AllTiers) =>
            LET derived == CASE roma_mode = "blitz" -> "blitz"
                             [] roma_mode = "sharp" -> "blitz"
                             [] roma_mode = "keen" -> "sharp"
                             [] roma_mode = "smart" -> "keen"
                expected == IF req.orch_mode \in AllTiers
                            THEN req.orch_mode ELSE derived
                model == ModelRoute("grok") \o ModelName("grok", expected)
            IN /\ units[i].cfg.atomizer.model = model
               /\ units[i].cfg.planner.model = model
               /\ req.orch_mode \notin AllTiers
                      => TierRank(derived) <= TierRank(roma_mode)

C14_Witness ==
    /\ Multi
    /\ Solving(1)
    /\ units[1].prov = "grok"
    /\ req.orch_mode = NoneStr
    /\ req.roma_mode = "smart"
    /\ units[1].cfg.atomizer.model = "openai/grok-3-fast"
    /\ units[1].cfg.executor.model = "openai/grok-3"

\* C15: the timeout a request waits with is fixed by its analysis tier
\* alone, 35 s for blitz, 55 s for sharp, 85 s for keen, 120 s for smart
\* and 85 s for no tier or an unrecognized one, on the single-provider
\* path as on the multi-provider path, whatever the orchestration tier and
\* the number of providers; a single-provider timeout reports that number.
C15_DeadlineByAnalysisTier ==
    LET seconds == CASE req.roma_mode = "blitz" -> 35
                     [] req.roma_mode = "sharp" -> 55
                     [] req.roma_mode = "keen" -> 85
                     [] req.roma_mode = "smart" -> 120
                     [] OTHER -> 85
    IN /\ pc \in {"waiting", "collecting", "shutdown_wait"}
              => wait_timeout = seconds
       /\ (Responded /\ units # <<>>) => wait_timeout = seconds
       /\ (Responded /\ Single /\ DeadlineHit)
              => response.detail =
                     "ROMA solve failed: 504: ROMA solve timed out after "
                     \o ToString(seconds) \o "s (mode=" \o roma_mode
                     \o "). Try blitz mode or retry."

C15_Witness ==
    /\ Multi
    /\ pc = "collecting"
    /\ req.roma_mode = "turbo"
    /\ req.orch_mode = "smart"
    /\ wait_timeout = 85

\* C16: extract_answer raises on no result a unit returns, so a request
\* that stopped waiting before its deadline with a unit that returned is
\* answered 200: in multi-provider mode one provider's malformed result
\* does not fail the request.
C16_NormalizeNeverRaises ==
    /\ \A i \in 1..Len(units) :
           units[i].st = "done" => extract_answer(units[i].raw).ok
    /\ (/\ Responded /\ ~DeadlineHit
        /\ \E i \in 1..Len(units) : units[i].st = "done")
           => response.status = 200

\* ------------------------------------------------------------------------
\* Normalization: single-provider requests over many shapes of result
\* ------------------------------------------------------------------------

\* Type tags an engine node may carry, or lack.
NormTags ==
    {AbsentV, NoneV, StrV(""), StrV("PLAN"), StrV("plan"), StrV("pLaN"),
     StrV("NodeType.PLAN"), StrV("explanation"), StrV("NodeType.EXECUTE"),
     StrV("PLA")}

\* Children lists: missing, None, empty, one child without any attribute,
\* two children of which one has a long id.
NormChildren ==
    {[tag |-> "absent", items |-> <<>>],
     [tag |-> "none", items |-> <<>>],
     ChildList(<<>>),
     ChildList(<<Child(AbsentV, AbsentV, AbsentV)>>),
     ChildList(<<Child(StrV("task-0001-abcdef"), StrV("subgoal"), StrV("r1")),
                 Child(NoneV, NoneV, NoneV)>>)}

\* What solve() may return here: plain strings and nodes of every
\* combination of result, goal, type tag and children.
NormResults ==
    {StrResult(""), StrResult("answer")}
    \cup {NodeResult(res, goal, ntype, kids) :
              res \in {AbsentV, NoneV, StrV("R")},
              goal \in {AbsentV, StrV("G")},
              ntype \in NormTags,
              kids \in NormChildren}

\* One single-provider request to a service that has grok's key.
InitNorm ==
    /\ keys = {"grok"}
    /\ configured = LlmConfigured(keys, TRUE)
    /\ req \in [roma_mode : {"keen"}, orch_mode : {NoneStr},
                provider : {NoneStr, "grok"}, providers : {<<>>}]
    /\ pc = "start"
    /\ units = <<>>
    /\ pending = {}
    /\ batch = <<>>
    /\ waiterq = <<>>
    /\ results_map = <<>>
    /\ exc = NoExc
    /\ response = NoResponse
    /\ atDeadline = <<>>
    /\ wait_timeout = 0
    /\ returned = <<>>

NextNorm ==
    \/ DispatchSingle
    \/ \E i \in 1..Len(units) : UnitCallsSolve(i)
    \/ \E i \in 1..Len(units) :
           \E raw \in NormResults : UnitSolveReturns(i, raw)
    \/ \E i \in 1..Len(units) :
           \E e \in SolveErrors : UnitSolveRaises(i, e)
    \/ SingleReturn
    \/ SingleRaise
    \/ SingleTimeout

SpecNorm == InitNorm /\ [][NextNorm]_vars

\* C17: the atomic flag of a normalized result follows from the shape of
\* the raw result and its type tag alone: a plain string is atomic and has
\* no subtasks; a node is not atomic exactly when its type tag contains
\* "plan" in any letter case, and atomic for every other tag and for no
\* tag, with children or without.
C17_AtomicFromShapeAndTag ==
    (Responded /\ Single /\ response.status = 200) =>
        LET raw == units[1].raw
            tag == IF raw.node_type.tag = "str" THEN raw.node_type.s ELSE ""
            HasPlan ==
                \E k \in 1..(Len(tag) - 3) :
                    /\ SubSeq(tag, k, k) \in {"p", "P"}
                    /\ SubSeq(tag, k + 1, k + 1) \in {"l", "L"}
                    /\ SubSeq(tag, k + 2, k + 2) \in {"a", "A"}
                    /\ SubSeq(tag, k + 3, k + 3) \in {"n", "N"}
        IN IF raw.kind = "str"
           THEN response.was_atomic /\ response.subtasks = <<>>
           ELSE response.was_atomic = ~HasPlan

C17_Witness ==
    /\ Responded
    /\ Single
    /\ response.status = 200
    /\ units[1].raw.kind = "node"
    /\ units[1].raw.node_type = StrV("explanation")
    /\ units[1].raw.children = ChildList(<<>>)
    /\ ~response.was_atomic

\* C18 as the specification states it: in every normalized result,
\* atomic = true implies that the subtask list is empty.
C18_AtomicImpliesNoSubtasks ==
    (Responded /\ Single /\ response.status = 200 /\ response.was_atomic)
        => response.subtasks = <<>>

\* C18: a normalized result has atomic = true together with a non-empty
\* subtask list exactly when the raw result is a node with at least one
\* child whose type tag does not contain "plan" in any letter case; there
\* are as many subtasks as children. In every other normalized result
\* atomic = true implies that the subtask list is empty.
C18_AtomicWithSubtasksIffNonPlanParent ==
    (Responded /\ Single /\ response.status = 200) =>
        LET raw == units[1].raw
            tag == IF raw.node_type.tag = "str" THEN raw.node_type.s ELSE ""
            HasPlan ==
                \E k \in 1..(Len(tag) - 3) :
                    /\ SubSeq(tag, k, k) \in {"p", "P"}
                    /\ SubSeq(tag, k + 1, k + 1) \in {"l", "L"}
                    /\ SubSeq(tag, k + 2, k + 2) \in {"a", "A"}
                    /\ SubSeq(tag, k + 3, k + 3) \in {"n", "N"}
            kids == IF raw.kind = "node" /\ raw.children.tag = "list"
                    THEN Len(raw.children.items) ELSE 0
        IN /\ Len(response.subtasks) = kids
           /\ (response.was_atomic /\ response.subtasks # <<>>)
                  <=> (raw.kind = "node" /\ kids > 0 /\ ~HasPlan)

C18_Witness ==
    /\ Responded
    /\ Single
    /\ response.status = 200
    /\ units[1].raw.node_type = StrV("NodeType.EXECUTE")
    /\ response.was_atomic
    /\ Len(response.subtasks) = 2

\* Where unit i stands in the history of returns.
ReturnedAt(i) == CHOOSE k \in 1..Len(returned) : returned[k] = i

\* Unit i had returned when as_completed was entered.
Early(i) ==
    \E a, b \in 1..Len(returned) : a < b /\ returned[a] = i /\ returned[b] = 0

\* The units of a provider that returned.
DoneOf(prov) ==
    {i \in 1..Len(units) : units[i].prov = prov /\ units[i].st = "done"}

\* The unit of a provider that returned last.
LastReturned(prov) ==
    CHOOSE i \in DoneOf(prov) :
        \A j \in DoneOf(prov) : ReturnedAt(j) <= ReturnedAt(i)

\* One future per entry of the providers list, and at most one entry of
\* results_map per provider.
OneUnitPerEntry ==
    /\ Len(units) = Len(req.providers)
    /\ \A i \in 1..Len(units) : units[i].prov = req.providers[i]
    /\ \A a, b \in 1..Len(results_map) :
           a # b => results_map[a].prov # results_map[b].prov

\* C19 as stated: when the loop over the futures has ended, results_map
\* holds for every provider with a unit that returned one entry, that of
\* the unit of the provider that returned last.
C19_LastResolvedWins ==
    (Responded /\ Multi /\ ~DeadlineHit) =>
        /\ OneUnitPerEntry
        /\ \A i \in 1..Len(units) :
               units[i].st = "done" =>
                   \E k \in 1..Len(results_map) :
                       results_map[k] = EntryOf(LastReturned(units[i].prov))

\* C19: one unit is launched per entry of the list and results_map holds
\* one entry per provider with a unit that returned: that of its unit that
\* returned last among those that returned after as_completed was entered
\* and, when all of them had returned before that, that of any one of them.
\* The results of its other units are dropped, so there can be fewer
\* entries than units that returned.
C19_LastCollectedWins ==
    (Responded /\ Multi /\ ~DeadlineHit) =>
        /\ OneUnitPerEntry
        /\ \A i \in 1..Len(units) :
               units[i].st = "done" =>
                   LET prov == units[i].prov
                   IN \E k \in 1..Len(results_map) :
                          IF \A j \in DoneOf(prov) : Early(j)
                          THEN \E j \in DoneOf(prov) :
                                   results_map[k] = EntryOf(j)
                          ELSE results_map[k] = EntryOf(LastReturned(prov))
        /\ \A k \in 1..Len(results_map) : DoneOf(results_map[k].prov) # {}

C19_Witness ==
    /\ Responded
    /\ ~DeadlineHit
    /\ response.status = 200
    /\ Len(units) > 1
    /\ units[1].prov = units[2].prov
    /\ units[1].st = "done"
    /\ units[2].st = "done"
    /\ units[1].raw # units[2].raw
    /\ ~Early(1)
    /\ ~Early(2)
    /\ ReturnedAt(2) < ReturnedAt(1)
    /\ Len(results_map) = 1
    /\ results_map[1] = EntryOf(1)

\* C20: a request with a non-empty providers list is served without regard
\* to its provider field: on a configured service it launches one unit per
\* entry of the list, as the same request without the field does, also
\* when the field names an unsupported provider or one without a key.
C20_ProviderFieldIgnored ==
    (Len(req.providers) > 0 /\ configured /\ pc # "start")
        => /\ Len(units) = Len(req.providers)
           /\ \A i \in 1..Len(units) : units[i].prov = req.providers[i]

============================================================================
